---- MODULE Spec2Model ----
(***************************************************************************)
(* Model of the neon-stack gameplay core: the zustand game store           *)
(* (src/src/state/gameStore.ts) together with the pure geometry, physics   *)
(* and scoring functions it calls, and of its collaborators: the render    *)
(* loop and player hooks (useGameLoop, useInput, useAndroidBackButton),    *)
(* the input manager (src/src/game/Input.ts) and the music manager.        *)
(*                                                                         *)
(* Specifications.  Spec: the store under any interleaving of its          *)
(* actions.  GeoSpec: one call of the geometry functions.  CleanupSpec:    *)
(* one call of cleanupFallingPieces.  DriverSpec (DriverFairSpec with the  *)
(* render loop's fairness): the store driven by frames and player input.   *)
(* InputSpec: the input manager.  MusicSpec: the music manager.  TwinSpec: *)
(* two executions of the store on the same actions.                        *)
(*                                                                         *)
(* Numbers.  The program computes in IEEE doubles; the model computes in   *)
(* fixed point with one unit = 0.01 world units.  Every block edge stays   *)
(* an even number of units (the base's edges are +-150 and the oscillation *)
(* offset is rounded to an even number of units), so that the halvings of  *)
(* calculateAxisOverlap and sliceBlock are exact, as they are in binary    *)
(* floating point.  Times are integer milliseconds.                        *)
(***************************************************************************)
EXTENDS Integers, Naturals, Sequences, FiniteSets, TLC

VARIABLES phase, blocks, currentBlock, pendingNextBlock, movingAxis,
          gameTime, score, perfectStreak, highScore, fallingPieces,
          lastPerfectHit, idCounter, threw, op, hits, geo,
          twin, accumulator, input, music

\* geo holds one call of the pure geometry functions (its arguments and,
\* once applied, its results); the game store leaves it null

\* accumulator is useGameLoop's accumulatorRef.current (ms); input holds the
\* InputManager singleton's fields and the page clock; music holds the
\* MusicManager singleton's fields, its audio element and its timers; twin
\* holds a second execution of the store, run side by side with the first
\* (null unless two executions are compared)
envVars == <<twin, accumulator, input, music>>

\* the fields of GameState (the store's data)
storeVars == <<phase, blocks, currentBlock, pendingNextBlock, movingAxis,
               gameTime, score, perfectStreak, highScore, fallingPieces,
               lastPerfectHit>>

vars == <<phase, blocks, currentBlock, pendingNextBlock, movingAxis,
          gameTime, score, perfectStreak, highScore, fallingPieces,
          lastPerfectHit, idCounter, threw, op, hits, geo,
          twin, accumulator, input, music>>

----------------------------------------------------------------------------
\* Bounds of the model

\* tick is not taken once gameTime would pass MaxTime (ms)
MaxTime == 3140

\* dropBlock is not taken once the stack holds more than MaxBlocks blocks
MaxBlocks == 3

\* the deltaMs values tick is called with
Deltas == {157, 314}

\* the high score the persistence layer may have stored before start-up
InitHighScores == {0, 20}

\* the sequences of Math.random() results (in hundredths) one
\* createFallingPiece call may consume
Draws == { <<0, 0, 0, 0, 0>>, <<50, 20, 98, 80, 40>> }

----------------------------------------------------------------------------
\* GAME_CONSTANTS (lengths in units of 0.01)

BLOCK_HEIGHT == 50
INITIAL_BLOCK_SIZE == 300
PERFECT_TOLERANCE == 10
OSCILLATION_AMPLITUDE == 400
OSCILLATION_SPEED == 2
FALLING_PIECE_LIFETIME == 2000
POINTS_PER_HIT == 10
PERFECT_STREAK_MULTIPLIER == 2
REMOVE_BELOW_Y == -2000

\* JavaScript null
Null == [null |-> TRUE]

Max(a, b) == IF a >= b THEN a ELSE b
Min(a, b) == IF a <= b THEN a ELSE b

----------------------------------------------------------------------------
\* core/geometry

vec3(x, y, z) == [x |-> x, y |-> y, z |-> z]

\* createBlock with an explicit id
createBlock(position, dimensions, id) ==
    [id |-> id, position |-> position, dimensions |-> dimensions]

\* mutant: intervals that merely touch count as overlapping
calculateAxisOverlap_touching(movingPos, movingSize, basePos, baseSize) ==
    LET movingMin == movingPos - movingSize \div 2
        movingMax == movingPos + movingSize \div 2
        baseMin == basePos - baseSize \div 2
        baseMax == basePos + baseSize \div 2
        overlapMin == Max(movingMin, baseMin)
        overlapMax == Min(movingMax, baseMax)
    IN IF overlapMin > overlapMax
       THEN Null
       ELSE [min |-> overlapMin, max |-> overlapMax,
             size |-> overlapMax - overlapMin]

\* mutant: the moving block's centre must lie over the base
calculateAxisOverlap_centerOnly(movingPos, movingSize, basePos, baseSize) ==
    LET movingMin == movingPos - movingSize \div 2
        movingMax == movingPos + movingSize \div 2
        baseMin == basePos - baseSize \div 2
        baseMax == basePos + baseSize \div 2
        overlapMin == Max(movingMin, baseMin)
        overlapMax == Min(movingMax, baseMax)
    IN IF movingPos <= baseMin \/ movingPos >= baseMax
       THEN Null
       ELSE [min |-> overlapMin, max |-> overlapMax,
             size |-> overlapMax - overlapMin]

calculateAxisOverlap(movingPos, movingSize, basePos, baseSize) ==
    LET movingMin == movingPos - movingSize \div 2
        movingMax == movingPos + movingSize \div 2
        baseMin == basePos - baseSize \div 2
        baseMax == basePos + baseSize \div 2
        overlapMin == Max(movingMin, baseMin)
        overlapMax == Min(movingMax, baseMax)
    IN IF overlapMin >= overlapMax
       THEN Null
       ELSE [min |-> overlapMin, max |-> overlapMax,
             size |-> overlapMax - overlapMin]

\* mutant: a loss of exactly the tolerance is not perfect
isPerfectHit_strict(movingPos, movingSize, basePos, baseSize, tolerance) ==
    LET overlap == calculateAxisOverlap(movingPos, movingSize, basePos, baseSize)
    IN IF overlap = Null
       THEN FALSE
       ELSE movingSize - overlap.size < tolerance

\* mutant: the loss is measured by the centre distance, overlap or not
isPerfectHit_byDistance(movingPos, movingSize, basePos, baseSize, tolerance) ==
    IF movingPos >= basePos
    THEN movingPos - basePos <= tolerance
    ELSE basePos - movingPos <= tolerance

isPerfectHit(movingPos, movingSize, basePos, baseSize, tolerance) ==
    LET overlap == calculateAxisOverlap(movingPos, movingSize, basePos, baseSize)
    IN IF overlap = Null
       THEN FALSE
       ELSE movingSize - overlap.size <= tolerance

\* mutant: the negative-side overhang is measured up to the overlap's far end
sliceBlock_wideFallen(moving, base, axis, ctr) ==
    LET movingPos == moving.position[axis]
        movingSize == moving.dimensions[axis]
        basePos == base.position[axis]
        baseSize == base.dimensions[axis]
        overlap == calculateAxisOverlap(movingPos, movingSize, basePos, baseSize)
        keptCenter == (overlap.min + overlap.max) \div 2
        keptSize == overlap.size
        movingMin == movingPos - movingSize \div 2
        movingMax == movingPos + movingSize \div 2
        negSide == movingMin < overlap.min
        fallenSize == IF negSide THEN overlap.max - movingMin
                                 ELSE movingMax - overlap.max
        fallenCenter == IF negSide THEN movingMin + fallenSize \div 2
                                   ELSE overlap.max + fallenSize \div 2
    IN IF isPerfectHit(movingPos, movingSize, basePos, baseSize, PERFECT_TOLERANCE)
       THEN [kept |-> createBlock([moving.position EXCEPT ![axis] = basePos],
                                  moving.dimensions, ctr + 1),
             fallen |-> Null, isPerfect |-> TRUE, ctr |-> ctr + 1]
       ELSE IF overlap = Null
       THEN [kept |-> Null,
             fallen |-> createBlock(moving.position, moving.dimensions, ctr + 1),
             isPerfect |-> FALSE, ctr |-> ctr + 1]
       ELSE [kept |-> createBlock([moving.position EXCEPT ![axis] = keptCenter],
                                  [moving.dimensions EXCEPT ![axis] = keptSize],
                                  ctr + 1),
             fallen |-> createBlock([moving.position EXCEPT ![axis] = fallenCenter],
                                    [moving.dimensions EXCEPT ![axis] = fallenSize],
                                    ctr + 2),
             isPerfect |-> FALSE, ctr |-> ctr + 2]

\* mutant: a partial slice keeps the moving block's full size
sliceBlock_unshrunk(moving, base, axis, ctr) ==
    LET movingPos == moving.position[axis]
        movingSize == moving.dimensions[axis]
        basePos == base.position[axis]
        baseSize == base.dimensions[axis]
        overlap == calculateAxisOverlap(movingPos, movingSize, basePos, baseSize)
        keptCenter == (overlap.min + overlap.max) \div 2
        movingMin == movingPos - movingSize \div 2
        movingMax == movingPos + movingSize \div 2
        negSide == movingMin < overlap.min
        fallenSize == IF negSide THEN overlap.min - movingMin
                                 ELSE movingMax - overlap.max
        fallenCenter == IF negSide THEN movingMin + fallenSize \div 2
                                   ELSE overlap.max + fallenSize \div 2
    IN IF isPerfectHit(movingPos, movingSize, basePos, baseSize, PERFECT_TOLERANCE)
       THEN [kept |-> createBlock([moving.position EXCEPT ![axis] = basePos],
                                  moving.dimensions, ctr + 1),
             fallen |-> Null, isPerfect |-> TRUE, ctr |-> ctr + 1]
       ELSE IF overlap = Null
       THEN [kept |-> Null,
             fallen |-> createBlock(moving.position, moving.dimensions, ctr + 1),
             isPerfect |-> FALSE, ctr |-> ctr + 1]
       ELSE [kept |-> createBlock([moving.position EXCEPT ![axis] = keptCenter],
                                  moving.dimensions, ctr + 1),
             fallen |-> createBlock([moving.position EXCEPT ![axis] = fallenCenter],
                                    [moving.dimensions EXCEPT ![axis] = fallenSize],
                                    ctr + 2),
             isPerfect |-> FALSE, ctr |-> ctr + 2]

\* sliceBlock; ctr is idCounter before the call, the result's ctr is
\* idCounter after the createBlock calls it made
sliceBlock(moving, base, axis, ctr) ==
    LET movingPos == moving.position[axis]
        movingSize == moving.dimensions[axis]
        basePos == base.position[axis]
        baseSize == base.dimensions[axis]
        overlap == calculateAxisOverlap(movingPos, movingSize, basePos, baseSize)
        keptCenter == (overlap.min + overlap.max) \div 2
        keptSize == overlap.size
        movingMin == movingPos - movingSize \div 2
        movingMax == movingPos + movingSize \div 2
        negSide == movingMin < overlap.min
        fallenSize == IF negSide THEN overlap.min - movingMin
                                 ELSE movingMax - overlap.max
        fallenCenter == IF negSide THEN movingMin + fallenSize \div 2
                                   ELSE overlap.max + fallenSize \div 2
    IN IF isPerfectHit(movingPos, movingSize, basePos, baseSize, PERFECT_TOLERANCE)
       THEN [kept |-> createBlock([moving.position EXCEPT ![axis] = basePos],
                                  moving.dimensions, ctr + 1),
             fallen |-> Null, isPerfect |-> TRUE, ctr |-> ctr + 1]
       ELSE IF overlap = Null
       THEN [kept |-> Null,
             fallen |-> createBlock(moving.position, moving.dimensions, ctr + 1),
             isPerfect |-> FALSE, ctr |-> ctr + 1]
       ELSE [kept |-> createBlock([moving.position EXCEPT ![axis] = keptCenter],
                                  [moving.dimensions EXCEPT ![axis] = keptSize],
                                  ctr + 1),
             fallen |-> createBlock([moving.position EXCEPT ![axis] = fallenCenter],
                                    [moving.dimensions EXCEPT ![axis] = fallenSize],
                                    ctr + 2),
             isPerfect |-> FALSE, ctr |-> ctr + 2]

\* id 0 stands for the literal id 'base'; generateId's block-n is n
createBaseBlock ==
    createBlock(vec3(0, 0, 0),
                vec3(INITIAL_BLOCK_SIZE, BLOCK_HEIGHT, INITIAL_BLOCK_SIZE), 0)

\* mutant: the new block takes the last generated id again
createMovingBlock_reusesId(lastBlock, axis, ctr) ==
    LET spawnOffset == OSCILLATION_AMPLITUDE
    IN createBlock(
         vec3(IF axis = "x" THEN -spawnOffset ELSE lastBlock.position.x,
              lastBlock.position.y + BLOCK_HEIGHT,
              IF axis = "z" THEN -spawnOffset ELSE lastBlock.position.z),
         lastBlock.dimensions, ctr)

createMovingBlock(lastBlock, axis, ctr) ==
    LET spawnOffset == OSCILLATION_AMPLITUDE
    IN createBlock(
         vec3(IF axis = "x" THEN -spawnOffset ELSE lastBlock.position.x,
              lastBlock.position.y + BLOCK_HEIGHT,
              IF axis = "z" THEN -spawnOffset ELSE lastBlock.position.z),
         lastBlock.dimensions, ctr + 1)

----------------------------------------------------------------------------
\* core/physics

\* Math.sin(a / 1000) * amplitude for an angle a in milliradians, by
\* Bhaskara's rational approximation 16p / (5 pi^2 - 4p), p = x (pi - x),
\* on each half period, rounded to an even number of units
SinTimes(a, amplitude) ==
    LET r == a % 6283
        x == IF r <= 3141 THEN r ELSE r - 3141
        q == (x * (3142 - x)) \div 4
        v == (4 * amplitude * q) \div (3085051 - q)
        e == 2 * ((v + 1) \div 2)
    IN IF r <= 3141 THEN e ELSE -e

\* elapsedMs is elapsedTime * 1000
oscillatePosition(elapsedMs, amplitude, speed, centerOffset) ==
    centerOffset + SinTimes(elapsedMs * speed, amplitude)

\* mutant: the sweep is centred on the world origin
updateBlockOscillation_noOffset(block, axis, elapsedMs, centerOffset) ==
    [block EXCEPT !.position[axis] =
        oscillatePosition(elapsedMs, OSCILLATION_AMPLITUDE,
                          OSCILLATION_SPEED, 0)]

updateBlockOscillation(block, axis, elapsedMs, centerOffset) ==
    [block EXCEPT !.position[axis] =
        oscillatePosition(elapsedMs, OSCILLATION_AMPLITUDE,
                          OSCILLATION_SPEED, centerOffset)]

\* rnd[1], rnd[2]: the two Math.random() results, in hundredths
calculateFallingVelocity(fallenBlock, baseBlock, axis, rnd) ==
    LET direction == IF fallenBlock.position[axis] > baseBlock.position[axis]
                     THEN 1 ELSE -1
        horizontalSpeed == 200 + rnd[1] * 2
        jitter == (rnd[2] - 50) \div 2
    IN vec3(IF axis = "x" THEN direction * horizontalSpeed ELSE jitter,
            0,
            IF axis = "z" THEN direction * horizontalSpeed ELSE jitter)

\* rnd[3], rnd[4], rnd[5]: the three Math.random() results, in call order
calculateAngularVelocity(axis, rnd) ==
    LET rotationSpeed == 200 + rnd[3] * 3
    IN IF axis = "z"
       THEN vec3(rotationSpeed, (rnd[4] - 50) * 2, (rnd[5] - 50) * 2)
       ELSE vec3((rnd[4] - 50) * 2, (rnd[5] - 50) * 2, rotationSpeed)

\* mutant: the piece's block starts nudged sideways by the random jitter
createFallingPiece_nudged(fallenBlock, baseBlock, axis, currentTime, rnd) ==
    [id |-> fallenBlock.id,
     block |-> [fallenBlock EXCEPT
                  !.position.y = @ + calculateFallingVelocity(
                                       fallenBlock, baseBlock, axis, rnd)[axis]],
     velocity |-> calculateFallingVelocity(fallenBlock, baseBlock, axis, rnd),
     angularVelocity |-> calculateAngularVelocity(axis, rnd),
     createdAt |-> currentTime]

\* the id `falling-${fallenBlock.id}` is modelled by the block's id
createFallingPiece(fallenBlock, baseBlock, axis, currentTime, rnd) ==
    [id |-> fallenBlock.id,
     block |-> fallenBlock,
     velocity |-> calculateFallingVelocity(fallenBlock, baseBlock, axis, rnd),
     angularVelocity |-> calculateAngularVelocity(axis, rnd),
     createdAt |-> currentTime]

\* mutant: a piece is removed as soon as its age reaches the lifetime
shouldRemoveFallingPiece_atLifetime(piece, currentTime) ==
    LET age == currentTime - piece.createdAt
        isTooOld == age >= FALLING_PIECE_LIFETIME
        isTooFarBelow == piece.block.position.y < REMOVE_BELOW_Y
    IN isTooOld \/ isTooFarBelow

shouldRemoveFallingPiece(piece, currentTime) ==
    LET age == currentTime - piece.createdAt
        isTooOld == age > FALLING_PIECE_LIFETIME
        isTooFarBelow == piece.block.position.y < REMOVE_BELOW_Y
    IN isTooOld \/ isTooFarBelow

----------------------------------------------------------------------------
\* core/scoring

RECURSIVE Pow(_, _)
Pow(b, n) == IF n = 0 THEN 1 ELSE b * Pow(b, n - 1)

\* mutant: the multiplier uses the streak after this hit
calculateHitScore_postStreak(streak, isPerfect) ==
    IF ~isPerfect
    THEN POINTS_PER_HIT
    ELSE POINTS_PER_HIT * Pow(PERFECT_STREAK_MULTIPLIER, streak + 1)

\* mutant: the bonus grows linearly with the streak
calculateHitScore_linear(streak, isPerfect) ==
    IF ~isPerfect
    THEN POINTS_PER_HIT
    ELSE POINTS_PER_HIT * (streak + 1)

calculateHitScore(streak, isPerfect) ==
    LET basePoints == POINTS_PER_HIT
    IN IF ~isPerfect
       THEN basePoints
       ELSE basePoints * Pow(PERFECT_STREAK_MULTIPLIER, streak)

\* mutant: a non-perfect hit keeps the streak
updatePerfectStreak_noReset(currentStreak, isPerfect) ==
    IF isPerfect THEN currentStreak + 1 ELSE currentStreak

updatePerfectStreak(currentStreak, isPerfect) ==
    IF isPerfect THEN currentStreak + 1 ELSE 0

----------------------------------------------------------------------------
\* state/gameStore

\* mutant: the axis is never flipped
getNextAxis_same(current) == current

getNextAxis(current) == IF current = "x" THEN "z" ELSE "x"

\* getTopBlock throws on an empty stack
TopThrows(bs) == Len(bs) = 0
getTopBlock(bs) == bs[Len(bs)]

SelectPieces(ps, t) == SelectSeq(ps, LAMBDA piece : ~shouldRemoveFallingPiece(piece, t))

\* the InputManager singleton as its constructor leaves it.  now is the page
\* clock (performance.now(), ms); callback is whether a drop callback is
\* registered; timeouts are the pending setTimeout calls of handlePointerDown;
\* calls holds the time of the last invocation of the drop callback, if any
InputManagerNew ==
    [now |-> 0,
     callback |-> FALSE,
     lastDropTime |-> 0,
     activePointerIds |-> {},
     isInitialized |-> FALSE,
     inputDisabled |-> FALSE,
     timeouts |-> {},
     calls |-> <<>>]

\* the MusicManager singleton as its constructor leaves it.  targetVolume is
\* in hundredths; audioElement is null or the element's src (a track number,
\* 0 for none), paused flag and currentTime; playPending is whether a play()
\* promise of startLoop is unsettled; stopTimers counts the pending
\* setTimeout calls of stop
MusicManagerNew ==
    [audioElement |-> Null,
     shuffleBag |-> <<>>,
     lastPlayedIndex |-> 0,
     targetVolume |-> 80,
     isPlaying |-> FALSE,
     isUnlocked |-> FALSE,
     isInitialized |-> FALSE,
     pendingStart |-> FALSE,
     playPending |-> FALSE,
     stopTimers |-> 0]

\* the collaborators of the store after construction
EnvInit ==
    /\ twin = Null
    /\ accumulator = 0
    /\ input = InputManagerNew
    /\ music = MusicManagerNew

Init ==
    /\ phase = "idle"
    /\ blocks = <<>>
    /\ currentBlock = Null
    /\ pendingNextBlock = Null
    /\ movingAxis = "x"
    /\ gameTime = 0
    /\ score = 0
    /\ perfectStreak = 0
    /\ highScore \in InitHighScores
    /\ fallingPieces = <<>>
    /\ lastPerfectHit = FALSE
    /\ idCounter = 0
    /\ threw = FALSE
    /\ op = [name |-> "init", d |-> 0, early |-> FALSE]
    /\ hits = <<>>
    /\ geo = Null
    /\ EnvInit

\* mutant: startGame forgets to clear pendingNextBlock
StartGame_keepsPending ==
    LET baseBlock == createBaseBlock
        firstMovingBlock == createMovingBlock(baseBlock, "x", 0)
    IN /\ phase' = "playing"
       /\ blocks' = <<baseBlock>>
       /\ currentBlock' = firstMovingBlock
       /\ movingAxis' = "x"
       /\ gameTime' = 0
       /\ score' = 0
       /\ perfectStreak' = 0
       /\ fallingPieces' = <<>>
       /\ lastPerfectHit' = FALSE
       /\ idCounter' = 1
       /\ threw' = FALSE
       /\ op' = [name |-> "startGame", d |-> 0, early |-> FALSE]
       /\ hits' = <<>>
       /\ UNCHANGED <<geo, envVars>>
       /\ UNCHANGED <<highScore, pendingNextBlock>>

StartGame ==
    LET baseBlock == createBaseBlock
        firstMovingBlock == createMovingBlock(baseBlock, "x", 0)
    IN /\ phase' = "playing"
       /\ blocks' = <<baseBlock>>
       /\ currentBlock' = firstMovingBlock
       /\ pendingNextBlock' = Null
       /\ movingAxis' = "x"
       /\ gameTime' = 0
       /\ score' = 0
       /\ perfectStreak' = 0
       /\ fallingPieces' = <<>>
       /\ lastPerfectHit' = FALSE
       /\ idCounter' = 1
       /\ threw' = FALSE
       /\ op' = [name |-> "startGame", d |-> 0, early |-> FALSE]
       /\ hits' = <<>>
       /\ UNCHANGED <<geo, envVars>>
       /\ UNCHANGED highScore

\* an action that returns early or throws leaves the store as it is
NoOp(name, d, thrown) ==
    /\ op' = [name |-> name, d |-> d, early |-> TRUE]
    /\ threw' = thrown
    /\ UNCHANGED <<storeVars, idCounter, hits, geo, envVars>>

\* mutant: the miss branch clears the stack
DropMiss_clearsBlocks(result, topBlock, rnd) ==
    /\ phase' = "gameover"
    /\ blocks' = <<>>
    /\ currentBlock' = Null
    /\ pendingNextBlock' = Null
    /\ fallingPieces' =
         IF result.fallen # Null
         THEN Append(fallingPieces,
                     createFallingPiece(result.fallen, topBlock, movingAxis,
                                        gameTime, rnd))
         ELSE fallingPieces
    /\ highScore' = Max(score, highScore)
    /\ idCounter' = result.ctr
    /\ UNCHANGED <<movingAxis, gameTime, score, perfectStreak,
                   lastPerfectHit, hits, geo, envVars>>

\* mutant: the miss branch forgets to clear currentBlock
DropMiss_keepCurrent(result, topBlock, rnd) ==
    /\ phase' = "gameover"
    /\ pendingNextBlock' = Null
    /\ fallingPieces' =
         IF result.fallen # Null
         THEN Append(fallingPieces,
                     createFallingPiece(result.fallen, topBlock, movingAxis,
                                        gameTime, rnd))
         ELSE fallingPieces
    /\ highScore' = Max(score, highScore)
    /\ idCounter' = result.ctr
    /\ UNCHANGED <<blocks, currentBlock, movingAxis, gameTime, score,
                   perfectStreak, lastPerfectHit, hits, geo, envVars>>

\* mutant: the miss branch clears lastPerfectHit
DropMiss_clearsLastPerfect(result, topBlock, rnd) ==
    /\ phase' = "gameover"
    /\ currentBlock' = Null
    /\ pendingNextBlock' = Null
    /\ fallingPieces' =
         IF result.fallen # Null
         THEN Append(fallingPieces,
                     createFallingPiece(result.fallen, topBlock, movingAxis,
                                        gameTime, rnd))
         ELSE fallingPieces
    /\ highScore' = Max(score, highScore)
    /\ lastPerfectHit' = FALSE
    /\ idCounter' = result.ctr
    /\ UNCHANGED <<blocks, movingAxis, gameTime, score, perfectStreak,
                   hits, geo, envVars>>

DropMiss(result, topBlock, rnd) ==
    /\ phase' = "gameover"
    /\ currentBlock' = Null
    /\ pendingNextBlock' = Null
    /\ fallingPieces' =
         IF result.fallen # Null
         THEN Append(fallingPieces,
                     createFallingPiece(result.fallen, topBlock, movingAxis,
                                        gameTime, rnd))
         ELSE fallingPieces
    /\ highScore' = Max(score, highScore)
    /\ idCounter' = result.ctr
    /\ UNCHANGED <<blocks, movingAxis, gameTime, score, perfectStreak,
                   lastPerfectHit, hits, geo, envVars>>

\* mutant: the high score is compared with the score before this hit
DropHit_staleHighScore(result, topBlock, rnd) ==
    LET nextAxis == getNextAxis(movingAxis)
    IN /\ blocks' = Append(blocks, result.kept)
       /\ currentBlock' = Null
       /\ pendingNextBlock' = createMovingBlock(result.kept, nextAxis, result.ctr)
       /\ movingAxis' = nextAxis
       /\ score' = score + calculateHitScore(perfectStreak, result.isPerfect)
       /\ perfectStreak' = updatePerfectStreak(perfectStreak, result.isPerfect)
       /\ fallingPieces' =
            IF result.fallen # Null
            THEN Append(fallingPieces,
                        createFallingPiece(result.fallen, topBlock, movingAxis,
                                           gameTime, rnd))
            ELSE fallingPieces
       /\ lastPerfectHit' = result.isPerfect
       /\ highScore' = Max(score, highScore)
       /\ idCounter' = result.ctr + 1
       /\ hits' = Append(hits, result.isPerfect)
       /\ UNCHANGED <<geo, envVars>>
       /\ UNCHANGED <<phase, gameTime>>

DropHit(result, topBlock, rnd) ==
    LET newStreak == updatePerfectStreak(perfectStreak, result.isPerfect)
        points == calculateHitScore(perfectStreak, result.isPerfect)
        newScore == score + points
        newBlocks == Append(blocks, result.kept)
        nextAxis == getNextAxis(movingAxis)
        nextBlock == createMovingBlock(result.kept, nextAxis, result.ctr)
        newFallingPieces ==
            IF result.fallen # Null
            THEN Append(fallingPieces,
                        createFallingPiece(result.fallen, topBlock, movingAxis,
                                           gameTime, rnd))
            ELSE fallingPieces
    IN /\ blocks' = newBlocks
       /\ currentBlock' = Null
       /\ pendingNextBlock' = nextBlock
       /\ movingAxis' = nextAxis
       /\ score' = newScore
       /\ perfectStreak' = newStreak
       /\ fallingPieces' = newFallingPieces
       /\ lastPerfectHit' = result.isPerfect
       /\ highScore' = Max(newScore, highScore)
       /\ idCounter' = result.ctr + 1
       /\ hits' = Append(hits, result.isPerfect)
       /\ UNCHANGED <<geo, envVars>>
       /\ UNCHANGED <<phase, gameTime>>

\* the body of dropBlock after its entry check, for the moving block it drops
DropBody(moving) ==
    IF TopThrows(blocks)
    THEN NoOp("dropBlock", 0, TRUE)
    ELSE LET topBlock == getTopBlock(blocks)
             result == sliceBlock(moving, topBlock, movingAxis, idCounter)
         IN /\ op' = [name |-> "dropBlock", d |-> 0, early |-> FALSE]
            /\ threw' = FALSE
            /\ IF result.kept = Null
               THEN \E rnd \in Draws : DropMiss(result, topBlock, rnd)
               ELSE IF result.fallen # Null
               THEN \E rnd \in Draws : DropHit(result, topBlock, rnd)
               ELSE DropHit(result, topBlock, <<0, 0, 0, 0, 0>>)

\* mutant: with no current block the pending block is dropped
DropBlock_dropsPending ==
    /\ Len(blocks) <= MaxBlocks
    /\ IF phase # "playing" \/ (currentBlock = Null /\ pendingNextBlock = Null)
       THEN NoOp("dropBlock", 0, FALSE)
       ELSE DropBody(IF currentBlock # Null THEN currentBlock
                                            ELSE pendingNextBlock)

DropBlock ==
    /\ Len(blocks) <= MaxBlocks
    /\ IF phase # "playing" \/ currentBlock = Null
       THEN NoOp("dropBlock", 0, FALSE)
       ELSE DropBody(currentBlock)

\* mutant: the missing-current-block return comes before the pending check
Tick_currentFirst(deltaMs) ==
    /\ phase = "playing" => gameTime + deltaMs <= MaxTime
    /\ IF phase # "playing" \/ currentBlock = Null
       THEN NoOp("tick", deltaMs, FALSE)
       ELSE /\ gameTime' = gameTime + deltaMs
            /\ currentBlock' = updateBlockOscillation(
                   currentBlock, movingAxis, gameTime + deltaMs,
                   getTopBlock(blocks).position[movingAxis])
            /\ op' = [name |-> "tick", d |-> deltaMs, early |-> FALSE]
            /\ threw' = FALSE
            /\ UNCHANGED <<phase, blocks, pendingNextBlock, movingAxis,
                           score, perfectStreak, highScore, fallingPieces,
                           lastPerfectHit, idCounter, hits, geo, envVars>>

Tick(deltaMs) ==
    /\ phase = "playing" => gameTime + deltaMs <= MaxTime
    /\ IF phase # "playing"
       THEN NoOp("tick", deltaMs, FALSE)
       ELSE IF TopThrows(blocks)
       THEN NoOp("tick", deltaMs, TRUE)
       ELSE LET newGameTime == gameTime + deltaMs
                topBlock == getTopBlock(blocks)
                centerOffset == topBlock.position[movingAxis]
            IN IF pendingNextBlock # Null
               THEN /\ gameTime' = newGameTime
                    /\ currentBlock' = updateBlockOscillation(
                           pendingNextBlock, movingAxis, newGameTime, centerOffset)
                    /\ pendingNextBlock' = Null
                    /\ op' = [name |-> "tick", d |-> deltaMs, early |-> FALSE]
                    /\ threw' = FALSE
                    /\ UNCHANGED <<phase, blocks, movingAxis, score, perfectStreak,
                                   highScore, fallingPieces, lastPerfectHit,
                                   idCounter, hits, geo, envVars>>
               ELSE IF currentBlock = Null
               THEN NoOp("tick", deltaMs, FALSE)
               ELSE /\ gameTime' = newGameTime
                    /\ currentBlock' = updateBlockOscillation(
                           currentBlock, movingAxis, newGameTime, centerOffset)
                    /\ op' = [name |-> "tick", d |-> deltaMs, early |-> FALSE]
                    /\ threw' = FALSE
                    /\ UNCHANGED <<phase, blocks, pendingNextBlock, movingAxis,
                                   score, perfectStreak, highScore, fallingPieces,
                                   lastPerfectHit, idCounter, hits, geo, envVars>>

SpawnPendingBlock ==
    IF pendingNextBlock = Null
    THEN NoOp("spawnPendingBlock", 0, FALSE)
    ELSE IF TopThrows(blocks)
    THEN NoOp("spawnPendingBlock", 0, TRUE)
    ELSE LET topBlock == getTopBlock(blocks)
             centerOffset == topBlock.position[movingAxis]
         IN /\ currentBlock' = updateBlockOscillation(
                   pendingNextBlock, movingAxis, gameTime, centerOffset)
            /\ pendingNextBlock' = Null
            /\ op' = [name |-> "spawnPendingBlock", d |-> 0, early |-> FALSE]
            /\ threw' = FALSE
            /\ UNCHANGED <<phase, blocks, movingAxis, gameTime, score,
                           perfectStreak, highScore, fallingPieces,
                           lastPerfectHit, idCounter, hits, geo, envVars>>

CleanupFallingPieces ==
    LET remaining == SelectPieces(fallingPieces, gameTime)
    IN /\ fallingPieces' = IF Len(remaining) # Len(fallingPieces)
                           THEN remaining ELSE fallingPieces
       /\ op' = [name |-> "cleanupFallingPieces", d |-> 0, early |-> FALSE]
       /\ threw' = FALSE
       /\ UNCHANGED <<phase, blocks, currentBlock, pendingNextBlock, movingAxis,
                      gameTime, score, perfectStreak, highScore, lastPerfectHit,
                      idCounter, hits, geo, envVars>>

\* mutant: reset forgets to clear pendingNextBlock
Reset_keepsPending ==
    /\ phase' = "idle"
    /\ blocks' = <<>>
    /\ currentBlock' = Null
    /\ movingAxis' = "x"
    /\ gameTime' = 0
    /\ score' = 0
    /\ perfectStreak' = 0
    /\ fallingPieces' = <<>>
    /\ lastPerfectHit' = FALSE
    /\ op' = [name |-> "reset", d |-> 0, early |-> FALSE]
    /\ threw' = FALSE
    /\ hits' = <<>>
    /\ UNCHANGED <<geo, envVars>>
    /\ UNCHANGED <<highScore, idCounter, pendingNextBlock>>

\* mutant: reset forgets to clear lastPerfectHit
Reset_keepsLastPerfect ==
    /\ phase' = "idle"
    /\ blocks' = <<>>
    /\ currentBlock' = Null
    /\ pendingNextBlock' = Null
    /\ movingAxis' = "x"
    /\ gameTime' = 0
    /\ score' = 0
    /\ perfectStreak' = 0
    /\ fallingPieces' = <<>>
    /\ op' = [name |-> "reset", d |-> 0, early |-> FALSE]
    /\ threw' = FALSE
    /\ hits' = <<>>
    /\ UNCHANGED <<geo, envVars>>
    /\ UNCHANGED <<highScore, idCounter, lastPerfectHit>>

Reset ==
    /\ phase' = "idle"
    /\ blocks' = <<>>
    /\ currentBlock' = Null
    /\ pendingNextBlock' = Null
    /\ movingAxis' = "x"
    /\ gameTime' = 0
    /\ score' = 0
    /\ perfectStreak' = 0
    /\ fallingPieces' = <<>>
    /\ lastPerfectHit' = FALSE
    /\ op' = [name |-> "reset", d |-> 0, early |-> FALSE]
    /\ threw' = FALSE
    /\ hits' = <<>>
    /\ UNCHANGED <<geo, envVars>>
    /\ UNCHANGED <<highScore, idCounter>>

TickAny == \E deltaMs \in Deltas : Tick(deltaMs)

Next ==
    \/ StartGame
    \/ DropBlock
    \/ TickAny
    \/ SpawnPendingBlock
    \/ CleanupFallingPieces
    \/ Reset

Spec == Init /\ [][Next]_vars

----------------------------------------------------------------------------
\* The geometry functions on their own: one call per behaviour, its
\* arguments drawn from the sets below

\* sizes along the axis (units of 0.01), moving and base independently
GeoSizes == {8, 100, 300}

\* the base block's coordinate along the axis
GeoBasePos == {0, 40}

\* the moving block's coordinate along the axis, relative to the base's
GeoOffsets == {-400, -300, -204, -200, -154, -100, -54, -12, -10, -8, -4,
               0, 4, 6, 8, 10, 12, 54, 100, 154, 200, 204, 300, 400}

OtherAxis(axis) == IF axis = "x" THEN "z" ELSE "x"

\* a block of the given coordinate and size along axis
GeoBlock(id, axis, pos, size, y, otherPos, otherSize) ==
    createBlock([[x |-> 0, y |-> y, z |-> 0]
                    EXCEPT ![axis] = pos, ![OtherAxis(axis)] = otherPos],
                [[x |-> 0, y |-> BLOCK_HEIGHT, z |-> 0]
                    EXCEPT ![axis] = size, ![OtherAxis(axis)] = otherSize],
                id)

GeoInputs ==
    { [moving |-> GeoBlock(1, axis, basePos + off, movingSize,
                           BLOCK_HEIGHT, 6, 200),
       base |-> GeoBlock(0, axis, basePos, baseSize, 0, 0, 300),
       axis |-> axis,
       result |-> Null] :
        axis \in {"x", "z"}, basePos \in GeoBasePos, off \in GeoOffsets,
        movingSize \in GeoSizes, baseSize \in GeoSizes }

GeoInit ==
    /\ phase = "idle"
    /\ blocks = <<>>
    /\ currentBlock = Null
    /\ pendingNextBlock = Null
    /\ movingAxis = "x"
    /\ gameTime = 0
    /\ score = 0
    /\ perfectStreak = 0
    /\ highScore = 0
    /\ fallingPieces = <<>>
    /\ lastPerfectHit = FALSE
    /\ idCounter = 1
    /\ threw = FALSE
    /\ op = [name |-> "init", d |-> 0, early |-> FALSE]
    /\ hits = <<>>
    /\ geo \in GeoInputs
    /\ EnvInit

\* call calculateAxisOverlap (both ways round), isPerfectHit and sliceBlock
GeoApply ==
    /\ geo # Null
    /\ geo.result = Null
    /\ LET a == geo.axis
           mp == geo.moving.position[a]
           ms == geo.moving.dimensions[a]
           bp == geo.base.position[a]
           bs == geo.base.dimensions[a]
       IN geo' = [geo EXCEPT !.result =
                    [overlap |-> calculateAxisOverlap(mp, ms, bp, bs),
                     swapped |-> calculateAxisOverlap(bp, bs, mp, ms),
                     perfect |-> isPerfectHit(mp, ms, bp, bs, PERFECT_TOLERANCE),
                     slice |-> sliceBlock(geo.moving, geo.base, a, idCounter)]]
    /\ UNCHANGED <<storeVars, idCounter, threw, op, hits, envVars>>

GeoNext == GeoApply

GeoSpec == GeoInit /\ [][GeoNext]_vars

----------------------------------------------------------------------------
\* cleanupFallingPieces on its own: one call per behaviour, on a list of
\* falling pieces and a game time drawn from the sets below

\* the longest list of falling pieces
CleanupMaxPieces == 2

\* gameTime at the call (ms)
CleanupTimes == {1999, 2000, 2001, 2100, 2101}

\* the pieces' createdAt (ms)
CleanupCreated == {0, 100}

\* the y of the pieces' blocks, as the piece was created (on the tower) or
\* as updateFallingPiece has moved it (at and just below the removal depth)
CleanupYs == {50, -2000, -2002}

CleanupKinds == { [createdAt |-> c, y |-> y] : c \in CleanupCreated, y \in CleanupYs }

\* the i-th piece of a list
CleanupPiece(i, kind) ==
    createFallingPiece(
        createBlock(vec3(200, kind.y, 0),
                    vec3(100, BLOCK_HEIGHT, INITIAL_BLOCK_SIZE), i),
        createBaseBlock, "x", kind.createdAt, <<0, 0, 0, 0, 0>>)

CleanupPieceLists ==
    UNION { { [i \in 1..n |-> CleanupPiece(i, kinds[i])] :
                kinds \in [1..n -> CleanupKinds] } : n \in 0..CleanupMaxPieces }

\* a store in each phase: idle as constructed, playing and gameover over
\* the base block, with the drawn time and pieces
CleanupInit ==
    /\ phase \in {"idle", "playing", "gameover"}
    /\ blocks = IF phase = "idle" THEN <<>> ELSE <<createBaseBlock>>
    /\ gameTime \in IF phase = "idle" THEN {0} ELSE CleanupTimes
    /\ currentBlock =
         IF phase = "playing"
         THEN updateBlockOscillation(createMovingBlock(createBaseBlock, "x", 0),
                                     "x", gameTime, 0)
         ELSE Null
    /\ pendingNextBlock = Null
    /\ movingAxis = "x"
    /\ score = 0
    /\ perfectStreak = 0
    /\ highScore = 0
    /\ fallingPieces \in IF phase = "idle" THEN {<<>>} ELSE CleanupPieceLists
    /\ lastPerfectHit = FALSE
    /\ idCounter = CleanupMaxPieces + 1
    /\ threw = FALSE
    /\ op = [name |-> "init", d |-> 0, early |-> FALSE]
    /\ hits = <<>>
    /\ geo = Null
    /\ EnvInit

CleanupNext == CleanupFallingPieces

CleanupSpec == CleanupInit /\ [][CleanupNext]_vars

----------------------------------------------------------------------------
\* hooks/useGameLoop, hooks/useInput, hooks/useAndroidBackButton: the
\* render loop and the player driving the store

FIXED_TIMESTEP_MS == 16
MAX_DELTA_MS == 100

\* the frame deltas delta * 1000 that useFrame passes (ms)
FrameDeltas == {0, 14, 34, 250}

\* a frame is not taken once its ticks would carry gameTime past this (ms)
DriverMaxTime == 128

\* tick(deltaMs) while playing, on the fields it reads and writes: st holds
\* gameTime, currentBlock and pendingNextBlock
tickOnce(st, deltaMs) ==
    IF TopThrows(blocks)
    THEN st
    ELSE LET newGameTime == st.gameTime + deltaMs
             topBlock == getTopBlock(blocks)
             centerOffset == topBlock.position[movingAxis]
         IN IF st.pendingNextBlock # Null
            THEN [st EXCEPT !.gameTime = newGameTime,
                            !.currentBlock = updateBlockOscillation(
                                st.pendingNextBlock, movingAxis, newGameTime,
                                centerOffset),
                            !.pendingNextBlock = Null]
            ELSE IF st.currentBlock = Null
            THEN st
            ELSE [st EXCEPT !.gameTime = newGameTime,
                            !.currentBlock = updateBlockOscillation(
                                st.currentBlock, movingAxis, newGameTime,
                                centerOffset)]

\* the while loop of the frame callback; st also holds the accumulator, the
\* number of tick calls made and the deltaMs values they were made with
RECURSIVE frameLoop(_)
frameLoop(st) ==
    IF st.accumulator >= FIXED_TIMESTEP_MS
    THEN frameLoop([tickOnce(st, FIXED_TIMESTEP_MS) EXCEPT
                       !.accumulator = st.accumulator - FIXED_TIMESTEP_MS,
                       !.ticks = st.ticks + 1,
                       !.deltas = st.deltas \cup {FIXED_TIMESTEP_MS}])
    ELSE st

\* mutant: the frame delta is accumulated without the cap
Frame_uncapped(delta) ==
    /\ phase = "playing" =>
         gameTime + FIXED_TIMESTEP_MS
             * ((accumulator + Min(delta, MAX_DELTA_MS)) \div FIXED_TIMESTEP_MS)
           <= DriverMaxTime
    /\ IF phase # "playing"
       THEN /\ op' = [name |-> "frame", d |-> delta, early |-> TRUE,
                      ticks |-> 0, deltas |-> {}]
            /\ threw' = FALSE
            /\ UNCHANGED <<storeVars, idCounter, hits, geo, envVars>>
       ELSE LET deltaMs == delta
                end == frameLoop([accumulator |-> accumulator + deltaMs,
                                  gameTime |-> gameTime,
                                  currentBlock |-> currentBlock,
                                  pendingNextBlock |-> pendingNextBlock,
                                  ticks |-> 0, deltas |-> {}])
                remaining == SelectPieces(fallingPieces, end.gameTime)
            IN /\ accumulator' = end.accumulator
               /\ gameTime' = end.gameTime
               /\ currentBlock' = end.currentBlock
               /\ pendingNextBlock' = end.pendingNextBlock
               /\ fallingPieces' = IF Len(remaining) # Len(fallingPieces)
                                   THEN remaining ELSE fallingPieces
               /\ op' = [name |-> "frame", d |-> delta, early |-> FALSE,
                         ticks |-> end.ticks, deltas |-> end.deltas]
               /\ threw' = FALSE
               /\ UNCHANGED <<phase, blocks, movingAxis, score, perfectStreak,
                              highScore, lastPerfectHit, idCounter, hits, geo,
                              twin, input, music>>

\* the useFrame callback, called with delta * 1000 = delta
Frame(delta) ==
    /\ phase = "playing" =>
         gameTime + FIXED_TIMESTEP_MS
             * ((accumulator + Min(delta, MAX_DELTA_MS)) \div FIXED_TIMESTEP_MS)
           <= DriverMaxTime
    /\ IF phase # "playing"
       THEN /\ op' = [name |-> "frame", d |-> delta, early |-> TRUE,
                      ticks |-> 0, deltas |-> {}]
            /\ threw' = FALSE
            /\ UNCHANGED <<storeVars, idCounter, hits, geo, envVars>>
       ELSE LET deltaMs == Min(delta, MAX_DELTA_MS)
                end == frameLoop([accumulator |-> accumulator + deltaMs,
                                  gameTime |-> gameTime,
                                  currentBlock |-> currentBlock,
                                  pendingNextBlock |-> pendingNextBlock,
                                  ticks |-> 0, deltas |-> {}])
                remaining == SelectPieces(fallingPieces, end.gameTime)
            IN /\ accumulator' = end.accumulator
               /\ gameTime' = end.gameTime
               /\ currentBlock' = end.currentBlock
               /\ pendingNextBlock' = end.pendingNextBlock
               /\ fallingPieces' = IF Len(remaining) # Len(fallingPieces)
                                   THEN remaining ELSE fallingPieces
               /\ op' = [name |-> "frame", d |-> delta, early |-> FALSE,
                         ticks |-> end.ticks, deltas |-> end.deltas]
               /\ threw' = FALSE
               /\ UNCHANGED <<phase, blocks, movingAxis, score, perfectStreak,
                              highScore, lastPerfectHit, idCounter, hits, geo,
                              twin, input, music>>

FrameAny == \E delta \in FrameDeltas : Frame(delta)

\* a frame in which time passes
FrameAdvancing == \E delta \in FrameDeltas \ {0} : Frame(delta)

\* useInput's handleAction: the player's tap or key press
HandleAction ==
    IF phase = "idle" \/ phase = "gameover"
    THEN StartGame
    ELSE phase = "playing" /\ DropBlock

\* useAndroidBackButton's handleBackButton while playing
HandleBackButton == phase = "playing" /\ Reset

DriverNext ==
    \/ FrameAny
    \/ HandleAction
    \/ HandleBackButton

DriverSpec == Init /\ [][DriverNext]_vars

\* the render loop keeps running frames; the player is free to stop
DriverFairSpec == DriverSpec /\ WF_vars(FrameAdvancing)

----------------------------------------------------------------------------
\* game/Input: the InputManager singleton and the events the page sends it

\* DEFAULT_CONFIG.debounceMs
debounceMs == 250

\* the page clock does not pass this (ms)
InputMaxTime == 500

\* the amounts of time that pass between events (ms)
InputSteps == {125, 249}

\* PointerEvent.pointerId
PointerIds == {1, 2}

\* PointerEvent.button: -1 (no button changed), 0 (primary), 2 (secondary)
Buttons == {-1, 0, 2}

\* KeyboardEvent.code
KeyCodes == {"Space", "Enter", "Escape", "Digit1"}

\* everything the input manager leaves alone
InputFrame == UNCHANGED <<storeVars, idCounter, threw, hits, geo,
                           twin, accumulator, music>>

\* mutant: the window is one millisecond short
isDebounced_short(inp) == inp.now - inp.lastDropTime < debounceMs - 1

isDebounced(inp) == inp.now - inp.lastDropTime < debounceMs

\* the manager after the call, and whether the drop callback was invoked.
\* (The record of a pointerdown or keydown step also keeps, as previous,
\* the time of the invocation before it.)
triggerDrop(inp) ==
    IF ~inp.callback
    THEN [inp |-> inp, called |-> FALSE]
    ELSE IF isDebounced(inp)
    THEN [inp |-> inp, called |-> FALSE]
    ELSE [inp |-> [inp EXCEPT !.lastDropTime = inp.now,
                              !.calls = <<inp.now>>],
          called |-> TRUE]

\* useInput's effect: inputManager.init() and
\* inputManager.onDropRequested(handleAction).  (destroy has no caller.)
UseInputEffect ==
    /\ input' = [input EXCEPT !.isInitialized = TRUE, !.callback = TRUE]
    /\ op' = [name |-> "useInputEffect", d |-> 0, early |-> input.isInitialized]
    /\ InputFrame

SetInputDisabled(disabled) ==
    /\ input' = [input EXCEPT !.inputDisabled = disabled]
    /\ op' = [name |-> "setInputDisabled", d |-> 0, early |-> FALSE]
    /\ InputFrame

\* a pointerdown event reaches the document listener; ignored is whether
\* its target lies inside a [data-no-game-input] element
HandlePointerDown(pointerId, button, ignored) ==
    /\ input.isInitialized
    /\ IF input.inputDisabled \/ ignored \/ pointerId \in input.activePointerIds
       THEN /\ input' = input
            /\ op' = [name |-> "pointerdown", d |-> 0, early |-> TRUE,
                      called |-> FALSE]
       ELSE LET tracked ==
                    [input EXCEPT
                       !.activePointerIds = @ \cup {pointerId},
                       !.timeouts = @ \cup {[pointerId |-> pointerId,
                                             due |-> input.now + debounceMs]}]
            IN IF button # 0 /\ button # -1
               THEN /\ input' = tracked
                    /\ op' = [name |-> "pointerdown", d |-> 0, early |-> TRUE,
                              called |-> FALSE]
               ELSE /\ input' = triggerDrop(tracked).inp
                    /\ op' = [name |-> "pointerdown", d |-> 0, early |-> FALSE,
                              called |-> triggerDrop(tracked).called,
                              previous |-> input.calls]
    /\ InputFrame

\* a keydown event reaches the document listener; inField is whether its
\* target is an input or textarea element
HandleKeyDown(code, inField) ==
    /\ input.isInitialized
    /\ IF inField \/ code = "Escape" \/ input.inputDisabled
          \/ code \notin {"Space", "Enter"}
       THEN /\ input' = input
            /\ op' = [name |-> "keydown", d |-> 0, early |-> TRUE,
                      called |-> FALSE]
       ELSE /\ input' = triggerDrop(input).inp
            /\ op' = [name |-> "keydown", d |-> 0, early |-> FALSE,
                      called |-> triggerDrop(input).called,
                      previous |-> input.calls]
    /\ InputFrame

\* a setTimeout of handlePointerDown fires, at or after its due time
PointerTimeout ==
    \E t \in input.timeouts :
        /\ input.now >= t.due
        /\ input' = [input EXCEPT
                        !.activePointerIds = @ \ {t.pointerId},
                        !.timeouts = @ \ {t}]
        /\ op' = [name |-> "pointerTimeout", d |-> 0, early |-> FALSE]
        /\ InputFrame

\* time passes on the page
InputAdvance(dt) ==
    /\ input.now + dt <= InputMaxTime
    /\ input' = [input EXCEPT !.now = @ + dt]
    /\ op' = [name |-> "advance", d |-> dt, early |-> FALSE]
    /\ InputFrame

InputNext ==
    \/ UseInputEffect
    \/ \E disabled \in BOOLEAN : SetInputDisabled(disabled)
    \/ \E pointerId \in PointerIds, button \in Buttons, ignored \in BOOLEAN :
          HandlePointerDown(pointerId, button, ignored)
    \/ \E code \in KeyCodes, inField \in BOOLEAN : HandleKeyDown(code, inField)
    \/ PointerTimeout
    \/ \E dt \in InputSteps : InputAdvance(dt)

InputSpec == Init /\ [][InputNext]_vars

----------------------------------------------------------------------------
\* MusicManager (src/unnamed/part_002, lines 1-438): the singleton, its audio
\* element, the play() promise of startLoop and the fade-out timers of stop.
\* Track n is TRACK_URLS[n - 1]; the gain ramps are not modelled.

\* TRACK_URLS.length, cut down from 7
NumTracks == 3

\* stop is not taken while this many fade-out timers are pending
MaxStopTimers == 2

\* the audio element's currentTime is followed up to this many steps
MaxAudioTime == 2

\* MAX_MUSIC_GAIN, in hundredths
MAX_MUSIC_GAIN == 20

\* the uiVolume values setVolume is called with
UiVolumes == {0, 100}

\* everything the music manager leaves alone
MusicFrame == UNCHANGED <<storeVars, idCounter, threw, hits, geo,
                           twin, accumulator, input>>

\* the orders shuffleArray can leave the indices in
TrackOrders ==
    { p \in [1..NumTracks -> 1..NumTracks] :
        \A i, j \in 1..NumTracks : i # j => p[i] # p[j] }

\* the bags refillShuffleBag can produce: a shuffled order, its last entry
\* (the next pick) swapped away if it is the track played last
refillShuffleBag(lastPlayedIndex) ==
    UNION { IF NumTracks > 1 /\ p[NumTracks] = lastPlayedIndex
            THEN { [p EXCEPT ![NumTracks] = p[swapIdx], ![swapIdx] = p[NumTracks]] :
                     swapIdx \in 1..(NumTracks - 1) }
            ELSE {p} : p \in TrackOrders }

\* init(): the state after the call, for the bag the refill produced
init(m, refill) ==
    IF m.isInitialized
    THEN m
    ELSE [m EXCEPT !.audioElement = [src |-> 0, paused |-> TRUE, currentTime |-> 0],
                   !.shuffleBag = refill,
                   !.isInitialized = TRUE]

\* startLoop() up to its await, for the bag a refill would produce
startLoop(m, refill) ==
    IF ~m.isUnlocked \/ m.audioElement = Null
    THEN [m EXCEPT !.pendingStart = TRUE]
    ELSE IF m.targetVolume <= 0
    THEN m
    ELSE IF m.isPlaying
    THEN m
    ELSE LET bag == IF Len(m.shuffleBag) = 0 THEN refill ELSE m.shuffleBag
             trackIndex == bag[Len(bag)]
         IN [m EXCEPT !.shuffleBag = SubSeq(bag, 1, Len(bag) - 1),
                      !.lastPlayedIndex = trackIndex,
                      !.audioElement = [src |-> trackIndex, paused |-> FALSE,
                                        currentTime |-> 0],
                      !.playPending = TRUE]

\* stop(): the state after the call (a fade-out timer is set if it was playing)
stop(m) ==
    IF ~m.isPlaying \/ m.audioElement = Null \/ ~m.isUnlocked
    THEN [m EXCEPT !.pendingStart = FALSE]
    ELSE [m EXCEPT !.pendingStart = FALSE,
                   !.stopTimers = @ + 1,
                   !.isPlaying = FALSE]

MusicInit ==
    \E refill \in refillShuffleBag(music.lastPlayedIndex) :
        /\ music' = init(music, refill)
        /\ op' = [name |-> "musicInit", d |-> 0, early |-> music.isInitialized]
        /\ MusicFrame

\* unlock(), taken as one step: init, the play/pause workaround on the
\* first track, and the queued startLoop
Unlock ==
    \E refill \in refillShuffleBag(music.lastPlayedIndex),
       refill2 \in refillShuffleBag(music.lastPlayedIndex) :
        /\ music' =
             IF music.isUnlocked
             THEN music
             ELSE LET ready == [init(music, refill) EXCEPT
                                   !.audioElement = [src |-> 1, paused |-> TRUE,
                                                     currentTime |-> 0],
                                   !.isUnlocked = TRUE]
                  IN IF ready.pendingStart
                     THEN startLoop([ready EXCEPT !.pendingStart = FALSE], refill2)
                     ELSE ready
        /\ op' = [name |-> "unlock", d |-> 0, early |-> music.isUnlocked]
        /\ MusicFrame

StartLoop ==
    \E refill \in refillShuffleBag(music.lastPlayedIndex) :
        /\ music' = startLoop(music, refill)
        /\ op' = [name |-> "startLoop", d |-> 0,
                  early |-> (startLoop(music, refill).playPending = music.playPending
                               /\ startLoop(music, refill).audioElement = music.audioElement)]
        /\ MusicFrame

\* the play() promise of startLoop is fulfilled
PlayResolved ==
    /\ music.playPending
    /\ music' = [music EXCEPT !.isPlaying = TRUE, !.playPending = FALSE]
    /\ op' = [name |-> "playResolved", d |-> 0, early |-> FALSE]
    /\ MusicFrame

\* the play() promise of startLoop is rejected
PlayRejected ==
    /\ music.playPending
    /\ music' = [music EXCEPT !.playPending = FALSE]
    /\ op' = [name |-> "playRejected", d |-> 0, early |-> FALSE]
    /\ MusicFrame

Stop ==
    /\ music.stopTimers < MaxStopTimers
    /\ music' = stop(music)
    /\ op' = [name |-> "stop", d |-> 0, early |-> ~music.isPlaying]
    /\ MusicFrame

\* the setTimeout callback of stop runs
StopTimer ==
    /\ music.stopTimers > 0
    /\ music' =
         IF music.audioElement # Null /\ ~music.isPlaying
         THEN [music EXCEPT !.stopTimers = @ - 1]
         ELSE [music EXCEPT
                  !.stopTimers = @ - 1,
                  !.audioElement =
                      IF music.audioElement # Null
                      THEN [music.audioElement EXCEPT !.paused = TRUE,
                                                      !.currentTime = 0]
                      ELSE Null,
                  !.isPlaying = FALSE]
    /\ op' = [name |-> "stopTimer", d |-> 0,
              early |-> (music.audioElement # Null /\ ~music.isPlaying)]
    /\ MusicFrame

SetVolume(uiVolume) ==
    /\ uiVolume = 0 => music.stopTimers < MaxStopTimers
    /\ LET uiClamped == Max(0, Min(100, IF uiVolume <= 1 THEN uiVolume * 100
                                                         ELSE uiVolume))
           targetGain == (uiClamped * MAX_MUSIC_GAIN) \div 100
           set == [music EXCEPT !.targetVolume = targetGain]
       IN music' = IF ~music.isUnlocked
                   THEN set
                   ELSE IF targetGain <= 0 /\ music.isPlaying
                   THEN stop(set)
                   ELSE set
    /\ op' = [name |-> "setVolume", d |-> uiVolume, early |-> FALSE]
    /\ MusicFrame

\* the audio element plays on
AudioProgress ==
    /\ music.audioElement # Null
    /\ ~music.audioElement.paused
    /\ ~music.playPending
    /\ music.audioElement.currentTime < MaxAudioTime
    /\ music' = [music EXCEPT !.audioElement.currentTime = @ + 1]
    /\ op' = [name |-> "audioProgress", d |-> 0, early |-> FALSE]
    /\ MusicFrame

MusicNext ==
    \/ MusicInit
    \/ Unlock
    \/ StartLoop
    \/ PlayResolved
    \/ PlayRejected
    \/ Stop
    \/ StopTimer
    \/ \E uiVolume \in UiVolumes : SetVolume(uiVolume)
    \/ AudioProgress

MusicSpec == Init /\ [][MusicNext]_vars

----------------------------------------------------------------------------
\* Two executions of the store side by side, given the same actions with
\* the same arguments, each drawing its own random numbers.  The variables
\* of the store hold the execution that moves next; twin.run holds the
\* other one.  An action is taken by one execution (the lead), the two
\* change places, the other execution takes the same action (the follow),
\* and they are level again.

\* the deltaMs values tick is called with in the paired executions
TwinDeltas == {314}

\* the execution held in the store's variables
RunState ==
    [phase |-> phase, blocks |-> blocks, currentBlock |-> currentBlock,
     pendingNextBlock |-> pendingNextBlock, movingAxis |-> movingAxis,
     gameTime |-> gameTime, score |-> score, perfectStreak |-> perfectStreak,
     highScore |-> highScore, fallingPieces |-> fallingPieces,
     lastPerfectHit |-> lastPerfectHit, idCounter |-> idCounter,
     threw |-> threw, hits |-> hits]

\* the mark left in op while no action is under way
TwinLevel == [name |-> "level", d |-> 0, early |-> FALSE]

TwinInit ==
    /\ phase = "idle"
    /\ blocks = <<>>
    /\ currentBlock = Null
    /\ pendingNextBlock = Null
    /\ movingAxis = "x"
    /\ gameTime = 0
    /\ score = 0
    /\ perfectStreak = 0
    /\ highScore \in InitHighScores
    /\ fallingPieces = <<>>
    /\ lastPerfectHit = FALSE
    /\ idCounter = 0
    /\ threw = FALSE
    /\ op = TwinLevel
    /\ hits = <<>>
    /\ geo = Null
    /\ twin = [run |-> RunState, turn |-> "lead", want |-> TwinLevel]
    /\ accumulator = 0
    /\ input = InputManagerNew
    /\ music = MusicManagerNew

\* one action of the store
TwinStoreStep ==
    \/ StartGame
    \/ DropBlock
    \/ \E deltaMs \in TwinDeltas : Tick(deltaMs)
    \/ SpawnPendingBlock
    \/ CleanupFallingPieces
    \/ Reset

\* one execution takes an action of its choice
TwinLead ==
    /\ twin.turn = "lead"
    /\ op = TwinLevel
    /\ TwinStoreStep

\* the executions change places; the action just taken is noted
TwinSwap ==
    /\ twin.turn = "lead"
    /\ op # TwinLevel
    /\ phase' = twin.run.phase
    /\ blocks' = twin.run.blocks
    /\ currentBlock' = twin.run.currentBlock
    /\ pendingNextBlock' = twin.run.pendingNextBlock
    /\ movingAxis' = twin.run.movingAxis
    /\ gameTime' = twin.run.gameTime
    /\ score' = twin.run.score
    /\ perfectStreak' = twin.run.perfectStreak
    /\ highScore' = twin.run.highScore
    /\ fallingPieces' = twin.run.fallingPieces
    /\ lastPerfectHit' = twin.run.lastPerfectHit
    /\ idCounter' = twin.run.idCounter
    /\ threw' = twin.run.threw
    /\ hits' = twin.run.hits
    /\ op' = TwinLevel
    /\ twin' = [run |-> RunState, turn |-> "follow", want |-> op]
    /\ UNCHANGED <<geo, accumulator, input, music>>

\* the other execution takes the same action with the same argument
TwinFollow ==
    /\ twin.turn = "follow"
    /\ op = TwinLevel
    /\ TwinStoreStep
    /\ op'.name = twin.want.name
    /\ op'.d = twin.want.d

\* both have taken the action
TwinJoin ==
    /\ twin.turn = "follow"
    /\ op # TwinLevel
    /\ op' = TwinLevel
    /\ twin' = [twin EXCEPT !.turn = "lead", !.want = TwinLevel]
    /\ UNCHANGED <<storeVars, idCounter, threw, hits, geo,
                   accumulator, input, music>>

TwinNext ==
    \/ TwinLead
    \/ TwinSwap
    \/ TwinFollow
    \/ TwinJoin

TwinSpec == TwinInit /\ [][TwinNext]_vars

TypeOK ==
    /\ phase \in {"idle", "playing", "gameover"}
    /\ movingAxis \in {"x", "z"}
    /\ score >= 0
    /\ threw \in BOOLEAN

----------------------------------------------------------------------------
\* Properties of the game state machine

\* dropBlock's entry check passes in the current state
DropAccepted == phase = "playing" /\ currentBlock # Null

\* the two blocks' intervals along the axis share no interior point
Disjoint(moving, base, axis) ==
    LET dist == IF moving.position[axis] >= base.position[axis]
                THEN moving.position[axis] - base.position[axis]
                ELSE base.position[axis] - moving.position[axis]
    IN 2 * dist >= moving.dimensions[axis] + base.dimensions[axis]

\* the accepted dropBlock taken in the current state is a complete miss
DropIsMiss == DropAccepted /\ Disjoint(currentBlock, getTopBlock(blocks), movingAxis)

\* C1: the phase changes only from idle to playing by startGame, from
\* playing to gameover by a dropBlock whose slice is a complete miss, from
\* gameover to playing by startGame, and to idle by reset; tick,
\* spawnPendingBlock, cleanupFallingPieces and a non-miss dropBlock never
\* change the phase.
PhaseTransitions ==
    [][ /\ phase' # phase =>
             \/ phase = "idle" /\ phase' = "playing" /\ op'.name = "startGame"
             \/ phase = "playing" /\ phase' = "gameover"
                   /\ op'.name = "dropBlock" /\ DropIsMiss
             \/ phase = "gameover" /\ phase' = "playing" /\ op'.name = "startGame"
             \/ phase' = "idle" /\ op'.name = "reset"
        /\ op'.name \in {"tick", "spawnPendingBlock", "cleanupFallingPieces"}
             => phase' = phase
        /\ (op'.name = "dropBlock" /\ ~DropIsMiss) => phase' = phase
      ]_vars

\* C1 witness: a game that ended by a miss after blocks had been placed
GameOverAfterPlacements ==
    phase = "gameover" /\ op.name = "dropBlock" /\ ~op.early /\ Len(blocks) >= 3

\* C2: dropBlock changes no field of the game state unless phase is playing
\* and currentBlock is non-null (so a second drop before the pending block is
\* promoted, and a drop in idle or gameover, do nothing).
DropOnlyWhenAccepted ==
    [][ (op'.name = "dropBlock" /\ ~DropAccepted) => UNCHANGED storeVars ]_vars

\* C2 witness: a drop was issued while the next block was still pending
DropWhilePending ==
    /\ op.name = "dropBlock" /\ op.early
    /\ phase = "playing" /\ currentBlock = Null /\ pendingNextBlock # Null

\* C3: startGame invoked while the phase is playing is a no-op, leaving
\* blocks, currentBlock, score, perfectStreak, gameTime, movingAxis and
\* fallingPieces unchanged.
StartGameNoOpWhilePlaying ==
    [][ (op'.name = "startGame" /\ phase = "playing") =>
           UNCHANGED <<blocks, currentBlock, score, perfectStreak, gameTime,
                       movingAxis, fallingPieces>> ]_vars

\* C4: an accepted dropBlock that misses completely yields phase gameover,
\* currentBlock and pendingNextBlock null, exactly one falling piece appended
\* whose block has the moving block's position and dimensions, and
\* highScore = max(score, previous highScore); blocks, score, perfectStreak,
\* movingAxis and gameTime are unchanged.
MissEffects ==
    [][ (op'.name = "dropBlock" /\ DropIsMiss) =>
          /\ phase' = "gameover"
          /\ currentBlock' = Null
          /\ pendingNextBlock' = Null
          /\ Len(fallingPieces') = Len(fallingPieces) + 1
          /\ SubSeq(fallingPieces', 1, Len(fallingPieces)) = fallingPieces
          /\ fallingPieces'[Len(fallingPieces')].block.position
                = currentBlock.position
          /\ fallingPieces'[Len(fallingPieces')].block.dimensions
                = currentBlock.dimensions
          /\ highScore' = Max(score, highScore)
          /\ UNCHANGED <<blocks, score, perfectStreak, movingAxis, gameTime>>
      ]_vars

\* C4 witness: a miss left the whole moving block as the newest falling piece
MissLeftWholeBlock ==
    /\ phase = "gameover" /\ op.name = "dropBlock" /\ ~op.early
    /\ Len(fallingPieces) >= 1
    /\ fallingPieces[Len(fallingPieces)].block.dimensions
          = blocks[Len(blocks)].dimensions
    /\ score > 0

\* the accepted dropBlock taken in the current state is a perfect hit
DropIsPerfect ==
    /\ DropAccepted
    /\ isPerfectHit(currentBlock.position[movingAxis],
                    currentBlock.dimensions[movingAxis],
                    getTopBlock(blocks).position[movingAxis],
                    getTopBlock(blocks).dimensions[movingAxis],
                    PERFECT_TOLERANCE)

\* C5: every successful dropBlock raises the score by 10 for a non-perfect
\* hit, whatever the streak, and by 10 * 2^s for a perfect hit, s being
\* perfectStreak before the drop.
ScoreUsesPreUpdateStreak ==
    [][ (op'.name = "dropBlock" /\ DropAccepted /\ ~DropIsMiss) =>
          score' - score = IF DropIsPerfect THEN 10 * 2^perfectStreak ELSE 10
      ]_vars

\* C5 witness: a perfect hit landed on a streak of at least two
PerfectOnStreak ==
    /\ op.name = "dropBlock" /\ ~op.early /\ phase = "playing"
    /\ lastPerfectHit /\ perfectStreak >= 3

RECURSIVE TrailingPerfect(_)
\* the number of perfect placements at the end of a run's placements
TrailingPerfect(h) ==
    IF h = <<>> \/ ~h[Len(h)]
    THEN 0
    ELSE 1 + TrailingPerfect(SubSeq(h, 1, Len(h) - 1))

\* C6: perfectStreak is the number of consecutive perfect placements at the
\* end of the current run's successful placements (hits records them; it is
\* emptied by startGame and reset and untouched by a miss).
StreakIsTrailingPerfects == perfectStreak = TrailingPerfect(hits)

\* C6 witness: a partial placement followed by two perfect ones
StreakAfterPartial ==
    Len(hits) = 3 /\ ~hits[1] /\ hits[2] /\ hits[3] /\ perfectStreak = 2

\* C7: after n consecutive perfect drops from startGame, with no other
\* placement in the run, the score is 10 * (2^n - 1) and perfectStreak is n.
AllPerfectScore ==
    (\A i \in 1..Len(hits) : hits[i]) =>
        /\ score = 10 * (2^Len(hits) - 1)
        /\ perfectStreak = Len(hits)

\* C7 witness: three perfect drops in a row scored 10, 30, 70
ThreePerfectDrops ==
    /\ Len(hits) = 3 /\ hits[1] /\ hits[2] /\ hits[3]
    /\ score = 70 /\ perfectStreak = 3

\* C8: startGame sets movingAxis to x, each successful dropBlock flips it,
\* and a miss, tick, spawnPendingBlock and cleanupFallingPieces leave it
\* unchanged; so while playing or in gameover movingAxis is x exactly when
\* an even number of blocks lies on the base.
AxisAlternates ==
    /\ [](phase \in {"playing", "gameover"} =>
             (movingAxis = "x" <=> (Len(blocks) - 1) % 2 = 0))
    /\ [][ /\ op'.name = "startGame" => movingAxis' = "x"
           /\ (op'.name = "dropBlock" /\ DropAccepted /\ ~DropIsMiss) =>
                 /\ movingAxis' # movingAxis
                 /\ movingAxis' \in {"x", "z"}
           /\ (op'.name = "dropBlock" /\ ~(DropAccepted /\ ~DropIsMiss)) =>
                 movingAxis' = movingAxis
           /\ op'.name \in {"tick", "spawnPendingBlock", "cleanupFallingPieces"}
                 => movingAxis' = movingAxis
         ]_vars

\* C8 witness: after two placements the block sweeps along x again
BackOnXAxis ==
    phase = "playing" /\ Len(blocks) = 3 /\ movingAxis = "x" /\ currentBlock # Null

\* C9: whenever currentBlock is non-null, its coordinate along movingAxis is
\* the top block's coordinate plus amplitude * sin(speed * gameTime / 1000).
CurrentBlockOnSweep ==
    currentBlock # Null =>
        currentBlock.position[movingAxis] =
            getTopBlock(blocks).position[movingAxis]
              + SinTimes(OSCILLATION_SPEED * gameTime, OSCILLATION_AMPLITUDE)

\* C10: a successful dropBlock leaves currentBlock null and pendingNextBlock
\* non-null, and a tick(d) taken while a block is pending makes that block
\* the current one, unchanged but for its movingAxis coordinate, which is
\* the top block's plus amplitude * sin(speed * (gameTime + d) / 1000), and
\* clears pendingNextBlock.
PendingPromotedByTick ==
    [][ /\ (op'.name = "dropBlock" /\ DropAccepted /\ ~DropIsMiss) =>
              currentBlock' = Null /\ pendingNextBlock' # Null
        /\ (op'.name = "tick" /\ phase = "playing" /\ pendingNextBlock # Null) =>
              /\ pendingNextBlock' = Null
              /\ currentBlock' # Null
              /\ currentBlock'.id = pendingNextBlock.id
              /\ currentBlock'.dimensions = pendingNextBlock.dimensions
              /\ \A c \in {"x", "y", "z"} \ {movingAxis} :
                    currentBlock'.position[c] = pendingNextBlock.position[c]
              /\ currentBlock'.position[movingAxis] =
                    getTopBlock(blocks).position[movingAxis]
                      + SinTimes(OSCILLATION_SPEED * (gameTime + op'.d),
                                 OSCILLATION_AMPLITUDE)
      ]_vars

\* C10 witness: the tick right after a slicing drop promoted the pending
\* block over a stack top that is off the origin
PromotedOverShiftedTop ==
    /\ op.name = "tick" /\ ~op.early /\ currentBlock # Null
    /\ Len(blocks) >= 2 /\ Len(fallingPieces) >= 1
    /\ fallingPieces[Len(fallingPieces)].createdAt + op.d = gameTime
    /\ currentBlock.id = idCounter
    /\ getTopBlock(blocks).position[movingAxis] # 0

\* C11: while playing, tick(d) raises gameTime by exactly d and changes
\* nothing but gameTime, currentBlock and pendingNextBlock; in idle and
\* gameover tick changes nothing.
TickAdvancesTime ==
    [][ op'.name = "tick" =>
          IF phase = "playing"
          THEN /\ gameTime' = gameTime + op'.d
               /\ UNCHANGED <<phase, blocks, movingAxis, score, perfectStreak,
                              highScore, fallingPieces, lastPerfectHit>>
          ELSE UNCHANGED storeVars
      ]_vars

\* C11 witness: a tick promoted the pending block and advanced the time
TickAfterDrop ==
    /\ op.name = "tick" /\ ~op.early /\ phase = "playing"
    /\ Len(blocks) = 2 /\ currentBlock # Null /\ gameTime >= 314

\* C12: no action ever finds the stack empty at its top-of-stack lookup, and
\* blocks is empty exactly when the phase is idle.
TopLookupNeverFails ==
    /\ ~threw
    /\ (Len(blocks) = 0 <=> phase = "idle")

\* C12 witness: spawnPendingBlock looked up the top block and promoted
SpawnLookedUpTop ==
    /\ op.name = "spawnPendingBlock" /\ ~op.early /\ ~threw
    /\ currentBlock # Null /\ Len(blocks) >= 2

\* the slice result of the accepted dropBlock taken in the current state
DropResult == sliceBlock(currentBlock, getTopBlock(blocks), movingAxis, idCounter)

\* C13: between startGame and the next startGame or reset every action
\* keeps the existing entries of blocks in place; only a successful
\* dropBlock changes blocks, appending exactly the kept part; blocks[0] is
\* always the base block.
StackAppendOnly ==
    /\ [](Len(blocks) > 0 =>
            blocks[1] = [id |-> 0,
                         position |-> [x |-> 0, y |-> 0, z |-> 0],
                         dimensions |-> [x |-> 300, y |-> 50, z |-> 300]])
    /\ [][ op'.name \notin {"startGame", "reset"} =>
             IF op'.name = "dropBlock" /\ DropAccepted /\ ~DropIsMiss
             THEN blocks' = Append(blocks, DropResult.kept)
             ELSE blocks' = blocks
         ]_vars

\* C13 witness: a miss ended a run and left its three-block stack standing
StackKeptAfterMiss ==
    /\ phase = "gameover" /\ Len(blocks) = 3
    /\ blocks[2].dimensions # blocks[3].dimensions

\* C14: highScore is unchanged by startGame, tick, spawnPendingBlock,
\* cleanupFallingPieces and reset, after every accepted dropBlock it is the
\* larger of its previous value and the resulting score, and it is never
\* below score.
HighScoreMonotone ==
    /\ [](highScore >= score)
    /\ [][ /\ highScore' >= highScore
           /\ IF op'.name = "dropBlock" /\ DropAccepted
              THEN highScore' = IF score' >= highScore THEN score' ELSE highScore
              ELSE highScore' = highScore
         ]_vars

\* C14 witness: a placement raised the score above the stored high score
NewHighScore ==
    /\ op.name = "dropBlock" /\ ~op.early /\ phase = "playing"
    /\ score = 30 /\ highScore = 30

\* C15: reset yields phase idle, an empty stack, no current or pending
\* block, movingAxis x, gameTime 0, score 0, perfectStreak 0, no falling
\* pieces and lastPerfectHit false, and leaves highScore unchanged.
ResetClearsRun ==
    [][ op'.name = "reset" =>
          /\ phase' = "idle"
          /\ blocks' = <<>>
          /\ currentBlock' = Null
          /\ pendingNextBlock' = Null
          /\ movingAxis' = "x"
          /\ gameTime' = 0
          /\ score' = 0
          /\ perfectStreak' = 0
          /\ fallingPieces' = <<>>
          /\ lastPerfectHit' = FALSE
          /\ highScore' = highScore
      ]_vars

\* C15 witness: reset returned to idle with a high score earned in play
ResetKeptHighScore ==
    op.name = "reset" /\ phase = "idle" /\ highScore >= 70 /\ score = 0

----------------------------------------------------------------------------
\* Properties of the geometry functions (checked under GeoSpec)

\* the call held in geo has been made
GeoDone == geo # Null /\ geo.result # Null

GeoMovingPos == geo.moving.position[geo.axis]
GeoMovingSize == geo.moving.dimensions[geo.axis]
GeoBasePosition == geo.base.position[geo.axis]
GeoBaseSize == geo.base.dimensions[geo.axis]
GeoDistance ==
    IF GeoMovingPos >= GeoBasePosition
    THEN GeoMovingPos - GeoBasePosition
    ELSE GeoBasePosition - GeoMovingPos

\* sliceBlock returned a partial result
GeoPartial ==
    GeoDone /\ geo.result.slice.kept # Null /\ geo.result.slice.fallen # Null

\* in a partial result the sizes along the axis add up to the moving
\* block's, and the other two dimensions are the moving block's
GeoConserved ==
    LET r == geo.result.slice
        a == geo.axis
        o == OtherAxis(geo.axis)
    IN /\ r.kept.dimensions[a] + r.fallen.dimensions[a] = GeoMovingSize
       /\ r.kept.dimensions[o] = geo.moving.dimensions[o]
       /\ r.fallen.dimensions[o] = geo.moving.dimensions[o]
       /\ r.kept.dimensions.y = geo.moving.dimensions.y
       /\ r.fallen.dimensions.y = geo.moving.dimensions.y

\* C16 as stated: for every moving block, base block and axis, every partial
\* result of sliceBlock has kept.size + fallen.size = moving.size along the
\* axis, and kept and fallen keep moving's other size and height.
SliceConservesSize == GeoPartial => GeoConserved

\* C16 as amended: the same, for a moving block that is no larger than the
\* base along the axis.
SliceConservesSizeWithinBase ==
    (GeoPartial /\ GeoMovingSize <= GeoBaseSize) => GeoConserved

\* C16 witness: a block as wide as the base was cut on its negative side
PartialCutNegativeSide ==
    /\ GeoPartial /\ GeoMovingSize = 300 /\ GeoBaseSize = 300
    /\ GeoMovingPos < GeoBasePosition
    /\ geo.result.slice.fallen.dimensions[geo.axis] = 100

\* sliceBlock returned the perfect shape, snapped onto the base
GeoSnapped ==
    LET r == geo.result.slice
        a == geo.axis
    IN /\ r.isPerfect
       /\ r.fallen = Null
       /\ r.kept # Null
       /\ r.kept.position[a] = GeoBasePosition
       /\ r.kept.position[OtherAxis(a)] = geo.moving.position[OtherAxis(a)]
       /\ r.kept.position.y = geo.moving.position.y
       /\ r.kept.dimensions = geo.moving.dimensions

SliceShapes ==
    GeoDone =>
      LET r == geo.result.slice
      IN /\ \/ r.kept # Null /\ r.fallen = Null /\ r.isPerfect
            \/ r.kept = Null /\ r.fallen # Null /\ ~r.isPerfect
            \/ r.kept # Null /\ r.fallen # Null /\ ~r.isPerfect
         /\ r.isPerfect => r.fallen = Null
         /\ ~(r.kept = Null /\ r.fallen = Null)
         /\ r.kept = Null <=> geo.result.overlap = Null

\* C18 witness: a block wider than the base, centred on it, gave a partial
\* result
PartialWiderThanBase ==
    /\ GeoPartial /\ GeoMovingSize > GeoBaseSize /\ GeoDistance = 0
    /\ ~geo.result.slice.isPerfect

\* C19: when the intervals along the axis do not overlap or exactly touch,
\* calculateAxisOverlap returns null, isPerfectHit returns false, and
\* sliceBlock returns no kept part and a fallen block with the moving
\* block's position and dimensions.
NoOverlapIsMiss ==
    (GeoDone /\ 2 * GeoDistance >= GeoMovingSize + GeoBaseSize) =>
        /\ geo.result.overlap = Null
        /\ ~geo.result.perfect
        /\ geo.result.slice.kept = Null
        /\ geo.result.slice.fallen # Null
        /\ geo.result.slice.fallen.position = geo.moving.position
        /\ geo.result.slice.fallen.dimensions = geo.moving.dimensions

\* C19 witness: two blocks that exactly touch were sliced
TouchingSliced ==
    /\ GeoDone /\ 2 * GeoDistance = GeoMovingSize + GeoBaseSize
    /\ geo.result.slice.kept = Null

\* C20: calculateAxisOverlap gives the same result (null, or the same min,
\* max and size) when its two intervals are exchanged.
OverlapSymmetric ==
    GeoDone =>
        \/ geo.result.overlap = Null /\ geo.result.swapped = Null
        \/ /\ geo.result.overlap # Null /\ geo.result.swapped # Null
           /\ geo.result.overlap.min = geo.result.swapped.min
           /\ geo.result.overlap.max = geo.result.swapped.max
           /\ geo.result.overlap.size = geo.result.swapped.size

\* C20 witness: intervals of different sizes overlapped off centre
OverlapUnequalSizes ==
    /\ GeoDone /\ geo.result.overlap # Null
    /\ GeoMovingSize = 100 /\ GeoBaseSize = 300 /\ GeoDistance = 154
    /\ geo.result.overlap.size = 46

----------------------------------------------------------------------------
\* Invariants of the game state machine (checked under Spec)

\* C28: in every reachable state exactly one of currentBlock and
\* pendingNextBlock is non-null while the phase is playing, and both are
\* null while the phase is idle or gameover; so a tick taken while playing
\* never returns early for want of a current block.
OneMovingBlock ==
    /\ [](IF phase = "playing"
          THEN (currentBlock = Null) # (pendingNextBlock = Null)
          ELSE currentBlock = Null /\ pendingNextBlock = Null)
    /\ [][ (op'.name = "tick" /\ phase = "playing") => ~op'.early ]_vars

\* C28 witness: a tick taken while playing found no current block but a
\* pending one, and promoted it
TickFoundOnlyPending ==
    /\ op.name = "tick" /\ ~op.early
    /\ phase = "playing" /\ Len(blocks) >= 2
    /\ currentBlock # Null /\ pendingNextBlock = Null
    /\ currentBlock.position.y = Len(blocks) * BLOCK_HEIGHT

\* C30: in every reachable state lastPerfectHit is true exactly when
\* perfectStreak > 0 (a miss leaves both as they were, so the flag can
\* still be true in gameover).
LastPerfectIffStreak == lastPerfectHit <=> perfectStreak > 0

\* C30 witness: the game ended by a miss right after a perfect hit
GameOverOnStreak ==
    /\ phase = "gameover" /\ op.name = "dropBlock" /\ ~op.early
    /\ lastPerfectHit /\ perfectStreak > 0

\* the ids of the blocks the state holds, in a fixed order: the stack, the
\* current block, the pending block, the falling pieces' blocks
HeldBlockIds ==
    [i \in 1..Len(blocks) |-> blocks[i].id]
      \o (IF currentBlock # Null THEN <<currentBlock.id>> ELSE <<>>)
      \o (IF pendingNextBlock # Null THEN <<pendingNextBlock.id>> ELSE <<>>)
      \o [i \in 1..Len(fallingPieces) |-> fallingPieces[i].block.id]

\* no value occurs twice in the sequence
PairwiseDistinct(ids) ==
    \A i, j \in 1..Len(ids) : i # j => ids[i] # ids[j]

\* C23: in every reachable state the ids of the blocks in the stack, of
\* currentBlock or pendingNextBlock and of the falling pieces' blocks are
\* pairwise distinct, and so are the falling pieces' own ids; the blocks
\* startGame installs do not collide with a block still held.
BlockIdsUnique ==
    /\ PairwiseDistinct(HeldBlockIds)
    /\ PairwiseDistinct([i \in 1..Len(fallingPieces) |-> fallingPieces[i].id])

\* C23 witness: a second game of the session was started, and after two
\* placements it holds a stack, a moving block and two falling pieces
SecondGameHoldsBlocks ==
    /\ phase = "playing" /\ Len(blocks) = 3 /\ Len(fallingPieces) = 2
    /\ currentBlock # Null
    /\ highScore > score /\ highScore \notin InitHighScores

\* the interval [position - size/2, position + size/2] of block a along
\* axis lies within that of block b
FootprintWithin(a, b, axis) ==
    /\ a.position[axis] - a.dimensions[axis] \div 2
          >= b.position[axis] - b.dimensions[axis] \div 2
    /\ a.position[axis] + a.dimensions[axis] \div 2
          <= b.position[axis] + b.dimensions[axis] \div 2

\* C29: in every reachable state each block of the stack above the base has
\* strictly positive dimensions, component-wise at most those of the block
\* directly beneath it, a footprint on both horizontal axes within that of
\* the block beneath it, and y equal to its stack index times BLOCK_HEIGHT;
\* the current or pending moving block has the dimensions of the top of the
\* stack.
TowerNeverOverhangs ==
    /\ \A i \in 2..Len(blocks) :
         /\ \A c \in {"x", "y", "z"} :
              /\ blocks[i].dimensions[c] > 0
              /\ blocks[i].dimensions[c] <= blocks[i - 1].dimensions[c]
         /\ FootprintWithin(blocks[i], blocks[i - 1], "x")
         /\ FootprintWithin(blocks[i], blocks[i - 1], "z")
         /\ blocks[i].position.y = (i - 1) * BLOCK_HEIGHT
    /\ currentBlock # Null =>
         currentBlock.dimensions = getTopBlock(blocks).dimensions
    /\ pendingNextBlock # Null =>
         pendingNextBlock.dimensions = getTopBlock(blocks).dimensions

\* C29 witness: the stack narrowed on both axes and a block is sweeping
\* over it
TowerNarrowedOnBothAxes ==
    /\ Len(blocks) = 3 /\ currentBlock # Null
    /\ blocks[2].dimensions.x < blocks[1].dimensions.x
    /\ blocks[3].dimensions.z < blocks[2].dimensions.z
    /\ blocks[3].position.x # blocks[1].position.x

----------------------------------------------------------------------------
\* Properties of cleanupFallingPieces (checked under CleanupSpec)

\* C22: cleanupFallingPieces, in any phase, removes exactly the falling
\* pieces for which gameTime - createdAt > 2000 or block.position.y < -20,
\* keeps all other pieces in their original order, and changes no other
\* field; a piece whose age is at most the lifetime and whose y is at or
\* above -20 is kept.
CleanupRemovesExactly ==
    [][ op'.name = "cleanupFallingPieces" =>
          /\ fallingPieces' =
               SelectSeq(fallingPieces,
                         LAMBDA p : ~(gameTime - p.createdAt > 2000
                                        \/ p.block.position.y < -2000))
          /\ \A i \in 1..Len(fallingPieces) :
               (gameTime - fallingPieces[i].createdAt <= 2000
                  /\ fallingPieces[i].block.position.y >= -2000)
               => \E j \in 1..Len(fallingPieces') :
                     fallingPieces'[j] = fallingPieces[i]
          /\ UNCHANGED <<phase, blocks, currentBlock, pendingNextBlock,
                         movingAxis, gameTime, score, perfectStreak,
                         highScore, lastPerfectHit>>
      ]_vars

\* C22 witness: of two pieces the first was removed and the second, of age
\* exactly the lifetime and at exactly the removal depth, was kept
KeptAtLifetimeAndDepth ==
    /\ op.name = "cleanupFallingPieces"
    /\ Len(fallingPieces) = 1
    /\ fallingPieces[1].id = 2
    /\ gameTime - fallingPieces[1].createdAt = FALLING_PIECE_LIFETIME
    /\ fallingPieces[1].block.position.y = REMOVE_BELOW_Y

----------------------------------------------------------------------------
\* Properties of the render loop (checked under DriverSpec and
\* DriverFairSpec)

\* C24: a frame taken while the phase is playing, with accumulator a
\* (0 <= a < 16) and frame delta d >= 0 ms, calls tick exactly
\* floor((a + min(d, 100)) / 16) times, never more than 7 times, each time
\* with deltaMs = 16, and leaves the accumulator at
\* (a + min(d, 100)) - 16 * ticks, which is in [0, 16); a frame taken in
\* another phase calls no tick and leaves the accumulator unchanged.  So
\* the game time a frame adds is a multiple of 16 and, with what is left in
\* the accumulator, equals what the clamped deltas put in.
FrameTicksFixedSteps ==
    /\ [](accumulator >= 0 /\ accumulator < 16)
    /\ [][ op'.name = "frame" =>
             IF phase = "playing"
             THEN LET clamped == IF op'.d <= 100 THEN op'.d ELSE 100
                      n == (accumulator + clamped) \div 16
                  IN /\ op'.ticks = n
                     /\ n <= 7
                     /\ op'.deltas \subseteq {16}
                     /\ accumulator' = (accumulator + clamped) - 16 * n
                     /\ gameTime' - gameTime = 16 * n
                     /\ gameTime' - gameTime <= accumulator + clamped
             ELSE /\ op'.ticks = 0
                  /\ accumulator' = accumulator
                  /\ gameTime' = gameTime
         ]_vars

\* C24 witness: a long frame met a nearly full accumulator, ticked seven
\* times and left a remainder
SevenTicksInOneFrame ==
    /\ op.name = "frame" /\ op.d = 250 /\ op.ticks = 7
    /\ accumulator = 2 /\ gameTime = 112

\* the ids a falling piece can have
PieceIds == 1..(3 * MaxBlocks)

\* a falling piece with this id is in the store
HasPiece(id) == \E i \in 1..Len(fallingPieces) : fallingPieces[i].id = id

\* play has reached the time beyond which the model takes no further frame
DriverAtHorizon ==
    phase = "playing" /\ gameTime + 7 * FIXED_TIMESTEP_MS > DriverMaxTime

\* C25: every falling piece that dropBlock adds is eventually removed from
\* fallingPieces, given only that the render loop keeps running frames and
\* with no further player action; this holds for the pieces of partial
\* slices and for the piece of the game-ending miss.  (Play that has run
\* to the model's time horizon is left out.)
PiecesEventuallyRemoved ==
    \A id \in PieceIds :
        HasPiece(id) ~> (~HasPiece(id) \/ DriverAtHorizon)

----------------------------------------------------------------------------
\* Properties of the input manager (checked under InputSpec)

\* C26: for any interleaving of pointerdown events and Space/Enter keydown
\* events, any two invocations of the registered drop callback are at least
\* debounceMs (250 ms) apart, and the drop callback is never invoked while
\* game input is disabled.
DropsDebounced ==
    [][ (op'.name \in {"pointerdown", "keydown"} /\ op'.called) =>
          /\ ~input.inputDisabled
          /\ input.calls # <<>> => input.now - input.calls[1] >= 250
      ]_vars

\* C26 witness: a pointer press invoked the callback and a key press
\* invoked it again exactly one window later
KeyDropOneWindowAfterPointerDrop ==
    /\ op.name = "keydown" /\ op.called
    /\ op.previous # <<>>
    /\ input.calls[1] - op.previous[1] = debounceMs
    /\ input.activePointerIds # {}

----------------------------------------------------------------------------
\* Properties of the music manager (checked under MusicSpec)

\* C27: when the fade-out timer of stop() fires, then if startLoop() has
\* not started playback again the timer pauses the audio element and
\* rewinds it, and if startLoop() has started playback again the timer
\* leaves it running (the audio element is not paused and isPlaying stays
\* true).
StopTimerSparesRestart ==
    [][ op'.name = "stopTimer" =>
          IF music.isPlaying
          THEN ~music'.audioElement.paused /\ music'.isPlaying
          ELSE ~music.playPending =>
                  /\ music'.audioElement.paused
                  /\ music'.audioElement.currentTime = 0
      ]_vars

----------------------------------------------------------------------------
\* Properties of paired executions (checked under TwinSpec)

\* what the claim compares of an execution: every field of the game state,
\* with the falling pieces reduced to their blocks and createdAt
Observable(run) ==
    [phase |-> run.phase, blocks |-> run.blocks,
     currentBlock |-> run.currentBlock,
     pendingNextBlock |-> run.pendingNextBlock,
     movingAxis |-> run.movingAxis, gameTime |-> run.gameTime,
     score |-> run.score, perfectStreak |-> run.perfectStreak,
     highScore |-> run.highScore, lastPerfectHit |-> run.lastPerfectHit,
     fallingPieces |-> [i \in 1..Len(run.fallingPieces) |->
                          [block |-> run.fallingPieces[i].block,
                           createdAt |-> run.fallingPieces[i].createdAt]]]

\* both executions have taken the same actions
TwinBothStepped == twin # Null /\ twin.turn = "follow" /\ op # TwinLevel

\* C21: two executions given the same sequence of actions (with the same
\* deltaMs values) but different random draws agree after every step on
\* phase, blocks, currentBlock, pendingNextBlock, movingAxis, gameTime,
\* score, perfectStreak, highScore and lastPerfectHit, and on the number,
\* blocks and createdAt of the falling pieces (they can differ only in the
\* pieces' velocity and angularVelocity), and an action returns early in
\* one exactly when it does in the other.
RandomnessIsCosmetic ==
    TwinBothStepped =>
        /\ Observable(RunState) = Observable(twin.run)
        /\ op.early = twin.want.early

\* C21 witness: after two partial slices and a tick the executions hold
\* the same two pieces with different velocities
TwinPiecesDifferInVelocity ==
    /\ TwinBothStepped
    /\ op.name = "tick" /\ ~op.early
    /\ phase = "playing" /\ Len(fallingPieces) = 2
    /\ fallingPieces[1].velocity # twin.run.fallingPieces[1].velocity
    /\ fallingPieces[2].angularVelocity # twin.run.fallingPieces[2].angularVelocity

====
